---- MODULE Spec2Model ----
(***************************************************************************)
(* A model of ble_advertiser.py: the BLEAdvertisement service object, the  *)
(* helper unpack_variants, and the call chain of main() against the bus    *)
(* and the Bluetooth daemon.                                               *)
(*                                                                         *)
(* Python values are tagged records [tag, val]:                            *)
(*   str, bytes  : an atom                                                 *)
(*   variant     : val is the wrapped value (Variant.value)                *)
(*   dict        : val is the sequence of <<key, value>> items, in         *)
(*                 insertion order, keys distinct                          *)
(*   list        : val is the sequence of elements                         *)
(***************************************************************************)
EXTENDS Integers, Sequences, FiniteSets, TLC

VARIABLES
    pc,            \* where main() is suspended, or how it ended
    bus,           \* state of the MessageBus connection
    exported,      \* paths at which test is exported on the bus
    objs,          \* the BLEAdvertisement instances constructed so far
    heap,          \* list objects by reference (Python lists are shared by reference)
    adapter_path,  \* main()'s local adapter_path
    reply,         \* main()'s local reply
    log,           \* history of what main() and the service object did
    lastRead,      \* the last property value handed to a remote reader
    nsets,         \* number of setter invocations so far
    nreleases,     \* number of Release calls so far
    u_in,          \* argument of a call of unpack_variants
    u_out          \* its result

vars == <<pc, bus, exported, objs, heap, adapter_path, reply, log,
          lastRead, nsets, nreleases, u_in, u_out>>

(***************************************************************************)
(* Bounds of the model.                                                    *)
(***************************************************************************)
MaxObjects == 2    \* managed objects in a GetManagedObjects reply
MaxSets == 2       \* setter invocations in one run
MaxReleases == 1   \* Release calls in one run
MaxInstances == 2  \* instances constructed by a client of the class

(***************************************************************************)
(* Constants of the source.                                                *)
(***************************************************************************)
ADAPTER_INTERFACE == "org.bluez.Adapter1"
LE_ADVERTISING_MANAGER_INTERFACE == "org.bluez.LEAdvertisingManager1"
LE_ADVERTISEMENT_IFACE == "org.bluez.LEAdvertisement1"
AdvertisementPath == "/org/bluez/advertisement/test1"
FallbackAdapterPath == "/org/bluez/hci0"

(***************************************************************************)
(* Python values.                                                          *)
(***************************************************************************)
Str(s) == [tag |-> "str", val |-> s]
Bytes(s) == [tag |-> "bytes", val |-> s]
Variant(v) == [tag |-> "variant", val |-> v]
Dict(items) == [tag |-> "dict", val |-> items]
List(elems) == [tag |-> "list", val |-> elems]
None == [tag |-> "none", val |-> ""]

DictKeys(items) == {items[i][1] : i \in DOMAIN items}

(***************************************************************************)
(* unpack_variants(dictionary), on the items of the dictionary.            *)
(***************************************************************************)
UnwrapOnce(v) == IF v.tag = "variant" THEN v.val ELSE v

RECURSIVE unpack_variants(_)
unpack_variants(dictionary) ==
    [i \in DOMAIN dictionary |->
        LET k == dictionary[i][1]
            v == UnwrapOnce(dictionary[i][2])
        IN  IF v.tag = "dict"
            THEN <<k, Dict(unpack_variants(v.val))>>
            ELSE IF v.tag = "list"
            THEN <<k, List([j \in DOMAIN v.val |-> UnwrapOnce(v.val[j])])>>
            ELSE <<k, v>>]

(***************************************************************************)
(* class BLEAdvertisement.  An instance is a record of its attributes;     *)
(* _service_uuids holds a reference into heap, because the list it names   *)
(* is mutated in place.  Reference 0 is the list object created once, when *)
(* the def statement of __init__ evaluates its default arguments.          *)
(* by_default and last_set record, for the properties checked below, how   *)
(* the instance was constructed and the latest setter call on it.          *)
(***************************************************************************)
DefaultUuidsRef == 0
DefaultAdvertisingType == Str("broadcast")
DefaultServiceUuids == <<Str("ABCD")>>
DefaultManufacturerData == Dict(<< <<291, Variant(Bytes(<<1, 2, 3, 4, 5>>))>> >>)
DefaultLocalName == Str("TestAdvertisement")

NoSet == [prop |-> "", val |-> None]

\* a constructor that stores the advertising type as the local name
BLEAdvertisement_NameFromType(advertising_type, service_uuids, manufacturer_data, local_name) ==
    [ path               |-> AdvertisementPath,
      service_name       |-> LE_ADVERTISEMENT_IFACE,
      advertisement_type |-> advertising_type,
      service_uuids      |-> service_uuids,
      manufacturer_data  |-> manufacturer_data,
      service_data       |-> None,
      local_name         |-> advertising_type,
      by_default         |-> service_uuids = DefaultUuidsRef,
      last_set           |-> NoSet ]

BLEAdvertisement(advertising_type, service_uuids, manufacturer_data, local_name) ==
    [ path               |-> AdvertisementPath,
      service_name       |-> LE_ADVERTISEMENT_IFACE,
      advertisement_type |-> advertising_type,
      service_uuids      |-> service_uuids,
      manufacturer_data  |-> manufacturer_data,
      service_data       |-> None,
      local_name         |-> local_name,
      by_default         |-> service_uuids = DefaultUuidsRef,
      last_set           |-> NoSet ]

\* the four property getters
advertisement_type(self) == self.advertisement_type
service_uuids(self, h) == List(h[self.service_uuids])
manufacturer_data(self) == self.manufacturer_data
local_name(self) == self.local_name

PropertyNames == {"Type", "ServiceUUIDs", "ManufacturerData", "LocalName"}

GetProperty(self, h, name) ==
    CASE name = "Type" -> advertisement_type(self)
      [] name = "ServiceUUIDs" -> service_uuids(self, h)
      [] name = "ManufacturerData" -> manufacturer_data(self)
      [] name = "LocalName" -> local_name(self)

\* the four property setters: the instance and the heap after the call
set_advertisement_type(self, ad_type) ==
    [self EXCEPT !.advertisement_type = ad_type]
add_service_uuid(self, h, uuid) ==
    [h EXCEPT ![self.service_uuids] = Append(@, uuid)]
add_manufacturer_data(self, data) ==
    [self EXCEPT !.manufacturer_data = data]
add_local_name(self, name) ==
    [self EXCEPT !.local_name = name]

SetPropertySelf(self, name, value) ==
    [ (CASE name = "Type" -> set_advertisement_type(self, value)
         [] name = "ServiceUUIDs" -> self
         [] name = "ManufacturerData" -> add_manufacturer_data(self, value)
         [] name = "LocalName" -> add_local_name(self, value))
      EXCEPT !.last_set = [prop |-> name, val |-> value] ]

SetPropertyHeap(self, h, name, value) ==
    IF name = "ServiceUUIDs" THEN add_service_uuid(self, h, value) ELSE h

(***************************************************************************)
(* Messages.  A reply is a Message with a message_type and a body; bus.call *)
(* resumes main() with the reply whose reply_serial matches, which is a    *)
(* METHOD_RETURN or an ERROR.                                              *)
(***************************************************************************)
Message(message_type, body) == [message_type |-> message_type, body |-> body]
NoReply == Message("NONE", <<>>)

ErrorName == "org.bluez.Error.Failed"
ErrorReply == Message("ERROR", <<Str(ErrorName)>>)
EmptyReturn == Message("METHOD_RETURN", <<>>)

\* replies to UnregisterAdvertisement and RegisterAdvertisement
CallReplies == {EmptyReturn, ErrorReply}

\* the objects a GetManagedObjects reply may list: a{oa{sa{sv}}}
ObjectPaths == {"/org/bluez", "/org/bluez/hci0", "/org/bluez/hci1"}
AdapterProps == Dict(<< <<"Powered", Variant(Str("true"))>> >>)
ManagerProps == Dict(<< <<"SupportedInstances", Variant(Str("5"))>>,
                         <<"SupportedIncludes", Variant(List(<<Str("tx-power")>>))>> >>)
InterfaceDicts ==
    { Dict(<< <<ADAPTER_INTERFACE, AdapterProps>> >>),
      Dict(<< <<ADAPTER_INTERFACE, AdapterProps>>,
              <<LE_ADVERTISING_MANAGER_INTERFACE, ManagerProps>> >>) }

RECURSIVE ManagedItems(_)
ManagedItems(n) ==
    IF n = 0 THEN {<<>>}
    ELSE LET shorter == ManagedItems(n - 1)
         IN  shorter \cup
             { Append(items, <<p, d>>) :
                 items \in {s \in shorter : Len(s) = n - 1},
                 p \in ObjectPaths, d \in InterfaceDicts }

ManagedObjects ==
    { Dict(items) : items \in
        {s \in ManagedItems(MaxObjects) :
            \A i, j \in DOMAIN s : s[i][1] = s[j][1] => i = j} }

GetManagedObjectsReplies ==
    {Message("METHOD_RETURN", <<m>>) : m \in ManagedObjects} \cup {ErrorReply}

(***************************************************************************)
(* The history kept in log.                                                *)
(***************************************************************************)
Event(ev, member, path, arg, body) ==
    [ev |-> ev, member |-> member, path |-> path, arg |-> arg, body |-> body]

Connected == Event("connect", "", "", "", <<>>)
Exported(path) == Event("export", "", path, "", <<>>)
Call(member, path, arg) == Event("call", member, path, arg, <<>>)
Reply(member, msg) == Event("reply", member, "", msg.message_type, msg.body)
Printed(text, body) == Event("print", "", "", text, body)
Waiting == Event("wait_for_disconnect", "", "", "", <<>>)
Raised(what) == Event("raise", "", "", what, <<>>)

(***************************************************************************)
(* main(), lines 134-139: the adapter path chosen from reply.body[0].      *)
(***************************************************************************)
RECURSIVE AdapterLoop(_, _, _)
AdapterLoop(items, i, path_so_far) ==
    IF i > Len(items) THEN path_so_far
    ELSE LET path == items[i][1]
             interfaces == items[i][2]
             props == unpack_variants(interfaces.val)
         IN  AdapterLoop(items, i + 1,
                 IF LE_ADVERTISING_MANAGER_INTERFACE \in DictKeys(props)
                 THEN path ELSE path_so_far)

\* a loop that stops at the first object exposing the interface
SelectAdapter_First(managed) ==
    LET items == managed.val
        hits == {i \in DOMAIN items :
                    LE_ADVERTISING_MANAGER_INTERFACE
                        \in DictKeys(unpack_variants(items[i][2].val))}
    IN  IF hits = {} THEN FallbackAdapterPath
        ELSE items[CHOOSE i \in hits : \A j \in hits : i <= j][1]

SelectAdapter(managed) == AdapterLoop(managed.val, 1, FallbackAdapterPath)

\* a script that reports success only
RegisterOutput_SuccessOnly(r) ==
    IF r # NoReply /\ r.message_type = "METHOD_RETURN"
    THEN <<Printed("Advertisement registered", <<>>)>>
    ELSE <<>>

\* main(), lines 164-168: what is printed for the RegisterAdvertisement reply
RegisterOutput(r) ==
    IF r # NoReply
    THEN IF r.message_type = "METHOD_RETURN"
         THEN <<Printed("Advertisement registered", <<>>)>>
         ELSE IF r.message_type = "ERROR"
         THEN <<Printed("Error:  ", r.body)>>
         ELSE <<>>
    ELSE <<>>

(***************************************************************************)
(* Initial states.                                                         *)
(***************************************************************************)
InitHeap == [r \in 0..MaxInstances |-> IF r = DefaultUuidsRef THEN DefaultServiceUuids ELSE <<>>]
NoRead == [prop |-> "", val |-> None]

InitCommon ==
    /\ bus = "closed"
    /\ exported = {}
    /\ objs = <<>>
    /\ heap = InitHeap
    /\ adapter_path = "unbound"
    /\ reply = NoReply
    /\ log = <<>>
    /\ lastRead = NoRead
    /\ nsets = 0
    /\ nreleases = 0

\* asyncio.run(main()): main() is about to await MessageBus(...).connect()
Init ==
    /\ InitCommon
    /\ pc = "connect"
    /\ u_in = None
    /\ u_out = None

(***************************************************************************)
(* main().  One action is the code main() runs between two suspensions:    *)
(* the event loop runs nothing else in between.                            *)
(***************************************************************************)
Suspended == {"request_name", "get_managed_objects", "unregister", "register",
              "wait_for_disconnect"}
Terminated == {"done", "crashed"}

\* line 120 resumes; lines 121-124 up to the suspension in request_name
ConnectReturns ==
    /\ pc = "connect"
    /\ LET test == BLEAdvertisement(DefaultAdvertisingType, DefaultUuidsRef,
                                    DefaultManufacturerData, DefaultLocalName)
       IN  /\ objs' = <<test>>
           /\ exported' = exported \cup {test.path}
           /\ log' = log \o <<Connected, Exported(test.path),
                              Call("RequestName", "/org/freedesktop/DBus", LE_ADVERTISEMENT_IFACE)>>
    /\ bus' = "connected"
    /\ pc' = "request_name"
    /\ UNCHANGED <<heap, adapter_path, reply, lastRead, nsets, nreleases, u_in, u_out>>

\* line 120: connect() raises
ConnectRaises ==
    /\ pc = "connect"
    /\ pc' = "crashed"
    /\ log' = Append(log, Raised("connect"))
    /\ UNCHANGED <<bus, exported, objs, heap, adapter_path, reply, lastRead,
                   nsets, nreleases, u_in, u_out>>

\* line 124 resumes with a RequestNameReply; lines 125-132 send GetManagedObjects
RequestNameReturns ==
    /\ pc = "request_name"
    /\ bus = "connected"
    /\ reply' = Message("REQUEST_NAME_REPLY", <<>>)
    /\ log' = log \o <<Reply("RequestName", reply'), Call("GetManagedObjects", "/", "")>>
    /\ pc' = "get_managed_objects"
    /\ UNCHANGED <<bus, exported, objs, heap, adapter_path, lastRead, nsets,
                   nreleases, u_in, u_out>>

\* line 124: request_name raises DBusError for an error reply
RequestNameRaises ==
    /\ pc = "request_name"
    /\ bus = "connected"
    /\ log' = log \o <<Reply("RequestName", ErrorReply), Raised("request_name")>>
    /\ pc' = "crashed"
    /\ UNCHANGED <<bus, exported, objs, heap, adapter_path, reply, lastRead,
                   nsets, nreleases, u_in, u_out>>

\* line 125 resumes with r; lines 134-139 choose the adapter; lines 142-151
\* send UnregisterAdvertisement.  reply.body[0].items() raises when body[0]
\* is not a dictionary, as in an error reply, whose body is the error text.
GetManagedObjectsReplied ==
    /\ pc = "get_managed_objects"
    /\ bus = "connected"
    /\ \E r \in GetManagedObjectsReplies :
        /\ reply' = r
        /\ IF r.body # <<>> /\ r.body[1].tag = "dict"
           THEN /\ adapter_path' = SelectAdapter(r.body[1])
                /\ log' = log \o <<Reply("GetManagedObjects", r),
                                   Call("UnregisterAdvertisement", adapter_path', objs[1].path)>>
                /\ pc' = "unregister"
           ELSE /\ adapter_path' = FallbackAdapterPath
                /\ log' = log \o <<Reply("GetManagedObjects", r), Raised("items")>>
                /\ pc' = "crashed"
    /\ UNCHANGED <<bus, exported, objs, heap, lastRead, nsets, nreleases, u_in, u_out>>

\* a script that registers only after a successful UnregisterAdvertisement
UnregisterReplied_Gated ==
    /\ pc = "unregister"
    /\ bus = "connected"
    /\ \E r \in CallReplies :
        /\ reply' = r
        /\ IF r.message_type = "METHOD_RETURN"
           THEN /\ log' = log \o <<Reply("UnregisterAdvertisement", r),
                                   Call("RegisterAdvertisement", adapter_path, objs[1].path)>>
                /\ pc' = "register"
           ELSE /\ log' = log \o <<Reply("UnregisterAdvertisement", r), Waiting>>
                /\ pc' = "wait_for_disconnect"
    /\ UNCHANGED <<bus, exported, objs, heap, adapter_path, lastRead, nsets,
                   nreleases, u_in, u_out>>

\* line 142 resumes with r; lines 154-163 send RegisterAdvertisement
UnregisterReplied ==
    /\ pc = "unregister"
    /\ bus = "connected"
    /\ \E r \in CallReplies :
        /\ reply' = r
        /\ log' = log \o <<Reply("UnregisterAdvertisement", r),
                           Call("RegisterAdvertisement", adapter_path, objs[1].path)>>
    /\ pc' = "register"
    /\ UNCHANGED <<bus, exported, objs, heap, adapter_path, lastRead, nsets,
                   nreleases, u_in, u_out>>

\* a script that sends RegisterAdvertisement again after an error reply
RegisterReplied_Retry ==
    /\ pc = "register"
    /\ bus = "connected"
    /\ \E r \in CallReplies :
        /\ reply' = r
        /\ IF r.message_type = "ERROR"
           THEN /\ log' = log \o <<Reply("RegisterAdvertisement", r)>> \o RegisterOutput(r)
                             \o <<Call("RegisterAdvertisement", adapter_path, objs[1].path)>>
                /\ pc' = "register"
           ELSE /\ log' = log \o <<Reply("RegisterAdvertisement", r)>> \o RegisterOutput(r)
                             \o <<Waiting>>
                /\ pc' = "wait_for_disconnect"
    /\ UNCHANGED <<bus, exported, objs, heap, adapter_path, lastRead, nsets,
                   nreleases, u_in, u_out>>

\* line 154 resumes with r; lines 164-168 print; line 170 suspends
RegisterReplied ==
    /\ pc = "register"
    /\ bus = "connected"
    /\ \E r \in CallReplies :
        /\ reply' = r
        /\ log' = log \o <<Reply("RegisterAdvertisement", r)>> \o RegisterOutput(r)
                      \o <<Waiting>>
    /\ pc' = "wait_for_disconnect"
    /\ UNCHANGED <<bus, exported, objs, heap, adapter_path, lastRead, nsets,
                   nreleases, u_in, u_out>>

\* The connection ends.  A pending bus.call or request_name raises; line 170
\* returns after a clean disconnection and raises after a lost connection.
Disconnect ==
    /\ bus = "connected"
    /\ pc \in Suspended
    /\ bus' = "disconnected"
    /\ \E clean \in BOOLEAN :
        IF pc = "wait_for_disconnect" /\ clean
        THEN /\ pc' = "done"
             /\ log' = log
        ELSE /\ pc' = "crashed"
             /\ log' = Append(log, Raised("disconnected"))
    /\ UNCHANGED <<exported, objs, heap, adapter_path, reply, lastRead, nsets,
                   nreleases, u_in, u_out>>

(***************************************************************************)
(* The exported object served over the bus while main() is suspended:      *)
(* org.freedesktop.DBus.Properties Set on the four properties (with a      *)
(* value of the property's declared signature) and Release.  A remote Get  *)
(* changes nothing: what it returns in a state is GetProperty there.       *)
(***************************************************************************)
Serving ==
    /\ bus = "connected"
    /\ pc \in Suspended
    /\ AdvertisementPath \in exported

BusSetValues(name) ==
    CASE name = "Type" -> {Str("peripheral")}
      [] name = "ServiceUUIDs" -> {List(<<Str("1234")>>)}
      [] name = "ManufacturerData" -> {Dict(<<>>)}
      [] name = "LocalName" -> {Str("Other")}

DaemonSet ==
    /\ Serving
    /\ nsets < MaxSets
    /\ \E name \in PropertyNames : \E value \in BusSetValues(name) :
        /\ objs' = [objs EXCEPT ![1] = SetPropertySelf(@, name, value)]
        /\ heap' = SetPropertyHeap(objs[1], heap, name, value)
    /\ nsets' = nsets + 1
    /\ UNCHANGED <<pc, bus, exported, adapter_path, reply, log, lastRead,
                   nreleases, u_in, u_out>>

\* line 114-116
Release ==
    /\ Serving
    /\ nreleases < MaxReleases
    /\ log' = Append(log, Printed("Released!", <<Str(objs[1].path)>>))
    /\ nreleases' = nreleases + 1
    /\ UNCHANGED <<pc, bus, exported, objs, heap, adapter_path, reply, lastRead,
                   nsets, u_in, u_out>>

Next ==
    \/ ConnectReturns
    \/ ConnectRaises
    \/ RequestNameReturns
    \/ RequestNameRaises
    \/ GetManagedObjectsReplied
    \/ UnregisterReplied
    \/ RegisterReplied
    \/ Disconnect
    \/ DaemonSet
    \/ Release

Spec == Init /\ [][Next]_vars

(***************************************************************************)
(* The run of main() under the scheduling the event loop and the peers     *)
(* give it: a resumable coroutine is resumed, every call is answered while *)
(* the bus is connected, and the bus disconnects in the end.               *)
(***************************************************************************)
MainStep ==
    \/ ConnectReturns
    \/ ConnectRaises
    \/ RequestNameReturns
    \/ RequestNameRaises
    \/ GetManagedObjectsReplied
    \/ UnregisterReplied
    \/ RegisterReplied

LiveSpec == Init /\ [][Next]_vars /\ WF_vars(MainStep) /\ WF_vars(Disconnect)

(***************************************************************************)
(* The class used by a client that constructs instances and assigns and    *)
(* reads their properties; values are any the client passes.               *)
(***************************************************************************)
ClientSetValues(name) ==
    IF name = "ServiceUUIDs" THEN BusSetValues(name) \cup {Str("1234")}
    ELSE BusSetValues(name)

InitAdv ==
    /\ InitCommon
    /\ pc = "library"
    /\ u_in = None
    /\ u_out = None

\* BLEAdvertisement()
ClientNew ==
    /\ pc = "library"
    /\ Len(objs) < MaxInstances
    /\ objs' = Append(objs, BLEAdvertisement(DefaultAdvertisingType, DefaultUuidsRef,
                                             DefaultManufacturerData, DefaultLocalName))
    /\ UNCHANGED <<pc, bus, exported, heap, adapter_path, reply, log, lastRead,
                   nsets, nreleases, u_in, u_out>>

\* BLEAdvertisement("peripheral", ["1234"], {}, "Other"), the list a fresh object
ClientNewWith ==
    /\ pc = "library"
    /\ Len(objs) < MaxInstances
    /\ LET ref == Len(objs) + 1
       IN  /\ heap' = [heap EXCEPT ![ref] = <<Str("1234")>>]
           /\ objs' = Append(objs, BLEAdvertisement(Str("peripheral"), ref,
                                                    Dict(<<>>), Str("Other")))
    /\ UNCHANGED <<pc, bus, exported, adapter_path, reply, log, lastRead,
                   nsets, nreleases, u_in, u_out>>

ClientSet ==
    /\ pc = "library"
    /\ nsets < MaxSets
    /\ \E i \in DOMAIN objs : \E name \in PropertyNames :
       \E value \in ClientSetValues(name) :
        /\ objs' = [objs EXCEPT ![i] = SetPropertySelf(@, name, value)]
        /\ heap' = SetPropertyHeap(objs[i], heap, name, value)
    /\ nsets' = nsets + 1
    /\ UNCHANGED <<pc, bus, exported, adapter_path, reply, log, lastRead,
                   nreleases, u_in, u_out>>

ClientGet ==
    /\ pc = "library"
    /\ \E i \in DOMAIN objs : \E name \in PropertyNames :
        lastRead' = [prop |-> name, val |-> GetProperty(objs[i], heap, name)]
    /\ UNCHANGED <<pc, bus, exported, objs, heap, adapter_path, reply, log,
                   nsets, nreleases, u_in, u_out>>

NextAdv ==
    \/ ClientNew
    \/ ClientNewWith
    \/ ClientSet
    \/ ClientGet

AdvSpec == InitAdv /\ [][NextAdv]_vars

(***************************************************************************)
(* unpack_variants applied to one dictionary of bounded nesting.           *)
(***************************************************************************)
MaxDepth == 3

DictsOver(S) == {Dict(<<>>)} \cup {Dict(<< <<"a", v>> >>) : v \in S}
ListsOver(S) == {List(<<>>)} \cup {List(<<v>>) : v \in S}

RECURSIVE Values(_)
Values(depth) ==
    IF depth = 0 THEN {Str("x")}
    ELSE LET S == Values(depth - 1)
         IN  {Str("x")} \cup {Variant(v) : v \in S} \cup DictsOver(S) \cup ListsOver(S)

UnpackInputs ==
    DictsOver(Values(MaxDepth))
    \cup {Dict(<< <<"a", v>>, <<"b", w>> >>) : v, w \in Values(1)}

InitUnpack ==
    /\ InitCommon
    /\ pc = "unpack"
    /\ u_in \in UnpackInputs
    /\ u_out = None

CallUnpack ==
    /\ pc = "unpack"
    /\ u_out = None
    /\ u_out' = Dict(unpack_variants(u_in.val))
    /\ UNCHANGED <<pc, bus, exported, objs, heap, adapter_path, reply, log,
                   lastRead, nsets, nreleases, u_in>>

NextUnpack == CallUnpack

UnpackSpec == InitUnpack /\ [][NextUnpack]_vars

(***************************************************************************)
(* Reading the history.                                                    *)
(***************************************************************************)
Calls(member) == {i \in DOMAIN log : log[i].ev = "call" /\ log[i].member = member}
Replies(member) == {i \in DOMAIN log : log[i].ev = "reply" /\ log[i].member = member}
Events(ev) == {i \in DOMAIN log : log[i].ev = ev}
Before(I, J) == \A i \in I, j \in J : i < j
RemoteCalls == {"GetManagedObjects", "UnregisterAdvertisement", "RegisterAdvertisement"}

HasDefaultValues(self) ==
    /\ GetProperty(self, heap, "Type") = DefaultAdvertisingType
    /\ GetProperty(self, heap, "ServiceUUIDs") = List(DefaultServiceUuids)
    /\ GetProperty(self, heap, "ManufacturerData") = DefaultManufacturerData
    /\ GetProperty(self, heap, "LocalName") = DefaultLocalName

RECURSIVE HasVariant(_)
HasVariant(v) ==
    CASE v.tag = "variant" -> TRUE
      [] v.tag = "dict" -> \E i \in DOMAIN v.val : HasVariant(v.val[i][2])
      [] v.tag = "list" -> \E i \in DOMAIN v.val : HasVariant(v.val[i])
      [] OTHER -> FALSE

\* C1: once a remote call of main() has been answered, the next step of the
\* chain connect, export, GetManagedObjects, UnregisterAdvertisement,
\* RegisterAdvertisement, wait_for_disconnect has been taken, the steps
\* appear in that order, RegisterAdvertisement is sent after the reply to
\* UnregisterAdvertisement with the object exported, and the two calls carry
\* the exported path and the same adapter path.
C1_FixedOrder ==
    /\ Replies("GetManagedObjects") # {} => Calls("UnregisterAdvertisement") # {}
    /\ Replies("UnregisterAdvertisement") # {} => Calls("RegisterAdvertisement") # {}
    /\ Replies("RegisterAdvertisement") # {} => Events("wait_for_disconnect") # {}
    /\ Before(Events("connect"), Events("export"))
    /\ Before(Events("export"), Calls("GetManagedObjects"))
    /\ Before(Calls("GetManagedObjects"), Calls("UnregisterAdvertisement"))
    /\ Before(Replies("UnregisterAdvertisement"), Calls("RegisterAdvertisement"))
    /\ Before(Calls("RegisterAdvertisement"), Events("wait_for_disconnect"))
    /\ \A i \in Calls("UnregisterAdvertisement"), j \in Calls("RegisterAdvertisement") :
        /\ log[i].path = log[j].path
        /\ log[i].arg = log[j].arg
        /\ log[j].arg \in exported

\* C2: every error reply to GetManagedObjects, UnregisterAdvertisement or
\* RegisterAdvertisement that main() has received has been printed.
C2_ErrorsPrinted ==
    \A i \in DOMAIN log :
        (log[i].ev = "reply" /\ log[i].member \in RemoteCalls /\ log[i].arg = "ERROR")
        => \E j \in DOMAIN log :
            j > i /\ log[j].ev = "print" /\ log[j].body = log[i].body

\* C3: after a property's setter was called with v, the property's getter
\* returns exactly v.
C3_SetThenGet ==
    \A i \in DOMAIN objs :
        objs[i].last_set # NoSet
        => GetProperty(objs[i], heap, objs[i].last_set.prop) = objs[i].last_set.val

\* C4: while no setter has been invoked the four getters return the values
\* passed to the constructor, and no step of main() after the construction
\* changes what a getter returns.
C4_ConstructedValuesKept ==
    [][ /\ (objs' # <<>> /\ nsets' = 0) => HasDefaultValues(objs[1])'
        /\ (objs # <<>> /\ pc' # pc) =>
              \A name \in PropertyNames :
                  GetProperty(objs[1], heap, name)' = GetProperty(objs[1], heap, name) ]_vars

C4_Witness ==
    /\ pc = "wait_for_disconnect"
    /\ Serving
    /\ nsets = 0
    /\ Calls("RegisterAdvertisement") # {}
    /\ HasDefaultValues(objs[1])

\* C5: each of the three remote calls is sent at most once, whatever the
\* replies, and nothing is sent after the RegisterAdvertisement reply.
C5_NoRetry ==
    /\ \A member \in RemoteCalls : Cardinality(Calls(member)) <= 1
    /\ Before(Events("call"), Replies("RegisterAdvertisement"))

C5_Witness ==
    /\ pc = "wait_for_disconnect"
    /\ \A member \in RemoteCalls : Cardinality(Calls(member)) = 1
    /\ \E i \in Replies("UnregisterAdvertisement") : log[i].arg = "ERROR"
    /\ \E i \in Replies("RegisterAdvertisement") : log[i].arg = "ERROR"

\* the adapter the reply determines, stated without the loop
Exposing(items) ==
    {i \in DOMAIN items : \E k \in DOMAIN items[i][2].val :
        items[i][2].val[k][1] = LE_ADVERTISING_MANAGER_INTERFACE}

ExpectedAdapter(items) ==
    IF Exposing(items) = {} THEN "/org/bluez/hci0"
    ELSE items[CHOOSE i \in Exposing(items) : \A j \in Exposing(items) : j <= i][1]

C7_UnregisterNeverGates ==
    [][ (pc = "unregister" /\ Replies("UnregisterAdvertisement")' # {}) =>
          /\ pc' = "register"
          /\ log'[Len(log')].ev = "call"
          /\ log'[Len(log')].member = "RegisterAdvertisement"
          /\ \A i \in Calls("UnregisterAdvertisement") :
                /\ log'[Len(log')].path = log[i].path
                /\ log'[Len(log')].arg = log[i].arg
          /\ objs' = objs
          /\ heap' = heap ]_vars

C7_Witness ==
    /\ pc = "register"
    /\ \E i \in Replies("UnregisterAdvertisement") : log[i].arg = "ERROR"
    /\ \E i \in Calls("UnregisterAdvertisement"), j \in Calls("RegisterAdvertisement") :
        i < j /\ log[i].path = log[j].path /\ log[i].arg = log[j].arg

\* the messages main() prints about the RegisterAdvertisement reply, and
\* what the history holds once that reply has arrived
RegisterMessages == {i \in Events("print") : log[i].arg \in {"Advertisement registered", "Error:  "}}

C8_Printed ==
    /\ Replies("RegisterAdvertisement") = {} => RegisterMessages = {}
    /\ \A i \in Replies("RegisterAdvertisement") :
        /\ Cardinality(RegisterMessages) = 1
        /\ log[i].arg = "METHOD_RETURN" =>
              log[i + 1] = Printed("Advertisement registered", <<>>)
        /\ log[i].arg = "ERROR" => log[i + 1] = Printed("Error:  ", log[i].body)
        /\ log[i + 2] = Waiting
        /\ pc \in {"wait_for_disconnect", "done", "crashed"}
        /\ pc \in Terminated => bus = "disconnected"

\* C8: the RegisterAdvertisement reply is followed by exactly one message,
\* "Advertisement registered" for a method return and the error body for an
\* error, then by the wait for disconnection; after that reply main() has
\* ended only if the bus has disconnected; and main() ends eventually.
C8_PrintsThenWaits == [](C8_Printed) /\ <>(pc \in Terminated)

C8_Witness ==
    /\ pc = "done"
    /\ bus = "disconnected"
    /\ \E i \in Replies("RegisterAdvertisement") :
        log[i].arg = "ERROR" /\ log[i + 1] = Printed("Error:  ", <<Str(ErrorName)>>)

\* C9: the result of unpack_variants has the keys of its argument and holds
\* no Variant at any depth, and the argument is left as it was.
C9_FullyUnpacked ==
    u_out # None =>
        /\ DictKeys(u_out.val) = DictKeys(u_in.val)
        /\ ~HasVariant(u_out)
        /\ u_in \in UnpackInputs

\* C10: an instance constructed with default arguments, on which no setter
\* was called, reports the default values whatever setters were called on
\* other instances before or after its construction.
C10_NoSharedState ==
    \A i \in DOMAIN objs :
        (objs[i].by_default /\ objs[i].last_set = NoSet) => HasDefaultValues(objs[i])

====
